---- MODULE Spec2Model ----
(***************************************************************************)
(* A model of the resume-to-job matching engine of AI_Jobizz               *)
(* (src/ats/utils/ai_processor.py, class ResumeAnalyzer) and of the job    *)
(* data it is given (src/ats/services/job_api_client.py), and of the view  *)
(* that serves the analysis requests (src/ats/views.py) with its table of  *)
(* ResumeAnalysis records (src/ats/models.py).                             *)
(*                                                                         *)
(* Text is a sequence of characters; a character is a one-element string   *)
(* ("a", " ", "\n") or, for the four non-ASCII glyphs that _clean_text     *)
(* rewrites, a bracketed name ("<bullet>").  Scores are exact rationals    *)
(* [num, den]; a percentage rounded to two decimals is an integer number   *)
(* of hundredths.                                                          *)
(***************************************************************************)
EXTENDS Integers, Sequences, FiniteSets, TLC

VARIABLES
    analyzer,   \* the fields of the shared ResumeAnalyzer (self.*)
    hashSeed,   \* the interpreter's string-hash seed (fixes set iteration order)
    calls,      \* the analyze() calls in progress on the shared analyzer
    cleanT,     \* a text through extract_text's and analyze's _clean_text
    scoreT,     \* sub-scores through the two score formatting functions
    skillT,     \* texts and lists through the skill functions
    requests,   \* the POST requests that ResumeAnalysisView is serving
    records,    \* the rows of the ResumeAnalysis table
    tmpFiles,   \* the temporary files that exist
    storage     \* the files in the media storage

\* The state of the view, which the analyzer's methods leave alone.
viewVars == <<requests, records, tmpFiles, storage>>

vars == <<analyzer, hashSeed, calls, cleanT, scoreT, skillT, viewVars>>

-----------------------------------------------------------------------------
(* Characters *)

Digits == <<"0", "1", "2", "3", "4", "5", "6", "7", "8", "9">>

UpperCase == <<"A", "B", "C", "D", "E", "F", "G", "H", "I", "J", "K", "L", "M",
               "N", "O", "P", "Q", "R", "S", "T", "U", "V", "W", "X", "Y", "Z">>

LowerCase == <<"a", "b", "c", "d", "e", "f", "g", "h", "i", "j", "k", "l", "m",
               "n", "o", "p", "q", "r", "s", "t", "u", "v", "w", "x", "y", "z">>

\* The characters of the model in code point order (Python compares strings
\* by code point): U+2013, U+2014, U+2022 and U+25CF come last.
Alphabet ==
    <<"\t", "\n", " ", "#", "$", "%", "(", ")", "+", ",", "-", ".", "/">> \o Digits \o
    <<":", ";", "?", "@">> \o UpperCase \o <<"_">> \o LowerCase \o
    <<"<endash>", "<emdash>", "<bullet>", "<circle>">>

Range(s) == {s[i] : i \in DOMAIN s}

Chars == Range(Alphabet)

Ord == [c \in Chars |-> CHOOSE i \in DOMAIN Alphabet : Alphabet[i] = c]

DigitChars == Range(Digits)

DigitValue == [c \in DigitChars |-> (CHOOSE i \in DOMAIN Digits : Digits[i] = c) - 1]

UpperChars == Range(UpperCase)

LowerChars == Range(LowerCase)

IsDigit(c) == c \in DigitChars

IsUpper(c) == c \in UpperChars

IsLower(c) == c \in LowerChars

\* \w of the re module, on the model's characters.
WordChars == DigitChars \cup UpperChars \cup LowerChars \cup {"_"}

IsWord(c) == c \in WordChars

\* \s of the re module and the characters str.strip() removes.
SpaceChars == {" ", "\t", "\n"}

IsSpace(c) == c \in SpaceChars

NonSpaceChars == Chars \ SpaceChars

LowerChar == [c \in Chars |->
    IF IsUpper(c) THEN LowerCase[CHOOSE i \in DOMAIN UpperCase : UpperCase[i] = c]
    ELSE c]

\* str.lower()
Lower(t) == [i \in DOMAIN t |-> LowerChar[t[i]]]

Min(S) == CHOOSE x \in S : \A y \in S : x <= y

Max(S) == CHOOSE x \in S : \A y \in S : x >= y

\* str.strip()
Strip(t) ==
    LET idx == {i \in DOMAIN t : ~IsSpace(t[i])}
    IN  IF idx = {} THEN <<>> ELSE SubSeq(t, Min(idx), Max(idx))

\* Whether pat occurs in t at position i.
MatchAt(t, i, pat) ==
    /\ i >= 1
    /\ i + Len(pat) - 1 <= Len(t)
    /\ \A k \in DOMAIN pat : t[i + k - 1] = pat[k]

\* The same, ignoring case (pat is lower case).
MatchAtI(t, i, pat) == MatchAt(Lower(t), i, pat)

\* The last position of the longest run of characters of S that starts at i
\* (i - 1 when t[i] is not in S).
RECURSIVE RunEnd(_, _, _)
RunEnd(t, i, S) ==
    IF i > Len(t) THEN Len(t)
    ELSE IF t[i] \notin S THEN i - 1
    ELSE RunEnd(t, i + 1, S)

\* \b of the re module between positions i - 1 and i.
WordBoundary(t, i) ==
    LET before == i > 1 /\ i - 1 <= Len(t) /\ IsWord(t[i - 1])
        after  == i >= 1 /\ i <= Len(t) /\ IsWord(t[i])
    IN  before # after

\* int(digits)
RECURSIVE IntOf(_)
IntOf(ds) ==
    IF ds = <<>> THEN 0
    ELSE 10 * IntOf(SubSeq(ds, 1, Len(ds) - 1)) + DigitValue[ds[Len(ds)]]

\* pat in t
Contains(t, pat) == \E i \in 1 .. (Len(t) - Len(pat) + 1) : MatchAt(t, i, pat)

\* s < t for Python strings.
StrLess(s, t) ==
    \E k \in 1 .. (Len(s) + 1) :
        /\ \A j \in 1 .. (k - 1) : j <= Len(t) /\ s[j] = t[j]
        /\ k <= Len(t)
        /\ (k = Len(s) + 1 \/ Ord[s[k]] < Ord[t[k]])

\* sorted(S) for a set of strings.
SortLexical(S) ==
    [i \in 1 .. Cardinality(S) |->
        CHOOSE x \in S : Cardinality({y \in S : StrLess(y, x)}) = i - 1]

\* Flattens a sequence of sequences.
RECURSIVE Flatten(_)
Flatten(ss) == IF ss = <<>> THEN <<>> ELSE Head(ss) \o Flatten(Tail(ss))

\* [x.strip() for x in pieces]
StripEach(pieces) == [i \in DOMAIN pieces |-> Strip(pieces[i])]

\* [x.lower() for x in pieces]
LowerEach(pieces) == [i \in DOMAIN pieces |-> Lower(pieces[i])]

\* All sequences over S of length at most n.
SeqsUpTo(S, n) == UNION {[1 .. k -> S] : k \in 0 .. n}

-----------------------------------------------------------------------------
(* _clean_text *)

Glyphs == {"<bullet>", "<circle>", "<endash>", "<emdash>"}

\* re.sub(r'\s+', ' ', text): every maximal run of whitespace becomes one space.
CollapseWhitespace(t) ==
    LET marked == [i \in DOMAIN t |->
            IF ~IsSpace(t[i]) THEN t[i]
            ELSE IF i > 1 /\ IsSpace(t[i - 1]) THEN "" ELSE " "]
    IN  SelectSeq(marked, LAMBDA c : c # "")

\* re.sub(r'[bullet circle endash emdash]', '-', text)
ReplaceGlyphs(t) == [i \in DOMAIN t |-> IF t[i] \in Glyphs THEN "-" ELSE t[i]]

\* A cleaning that turns the glyphs into spaces instead of hyphens.
CleanTextGlyphToSpace(text) ==
    Strip([i \in DOMAIN CollapseWhitespace(text) |->
              IF CollapseWhitespace(text)[i] \in Glyphs
              THEN " " ELSE CollapseWhitespace(text)[i]])

CleanText(text) == Strip(ReplaceGlyphs(CollapseWhitespace(text)))

-----------------------------------------------------------------------------
(* Cleaning twice: extract_text cleans the text it returns, analyze cleans *)
(* its argument again.                                                     *)

MaxTextLen == 4

CleanAlphabet == {" ", "\n", "\t", "a", "-", "<bullet>", "<emdash>"}

IdleAnalyzer == [known_skills |-> <<>>, current_year |-> 0,
                 skill_blacklist |-> {}, nlp |-> "none"]

Idle == [pc |-> "idle"]

\* No request is being served.
NoView ==
    /\ requests = <<>>
    /\ records = <<>>
    /\ tmpFiles = {}
    /\ storage = {}

InitClean ==
    /\ analyzer = IdleAnalyzer
    /\ hashSeed = 0
    /\ calls = <<>>
    /\ scoreT = Idle
    /\ skillT = Idle
    /\ NoView
    /\ \E t \in SeqsUpTo(CleanAlphabet, MaxTextLen) :
           cleanT = [pc |-> "page_text", raw |-> t, extracted |-> <<>>, analyzed |-> <<>>]

\* extract_text: the joined page text is cleaned before it is returned.
ExtractText ==
    /\ cleanT.pc = "page_text"
    /\ cleanT' = [cleanT EXCEPT !.pc = "extracted", !.extracted = CleanText(cleanT.raw)]
    /\ UNCHANGED <<analyzer, hashSeed, calls, scoreT, skillT, viewVars>>

\* analyze, first statement: the text it is given is cleaned again.
AnalyzeCleans ==
    /\ cleanT.pc = "extracted"
    /\ cleanT' = [cleanT EXCEPT !.pc = "analyzed", !.analyzed = CleanText(cleanT.extracted)]
    /\ UNCHANGED <<analyzer, hashSeed, calls, scoreT, skillT, viewVars>>

NextClean == ExtractText \/ AnalyzeCleans

SpecClean == InitClean /\ [][NextClean]_vars

\* C10: _clean_text is idempotent: the cleaning that analyze applies to text
\* that extract_text has already cleaned leaves that text as it is.
C10_CleanIdempotent ==
    cleanT.pc = "analyzed" => cleanT.analyzed = cleanT.extracted

\* A text with a whitespace run and a glyph has been cleaned twice.
C10_Witness ==
    /\ cleanT.pc = "analyzed"
    /\ cleanT.raw = <<"a", "\n", " ", "<bullet>">>
    /\ cleanT.extracted = <<"a", " ", "-">>
    /\ cleanT.analyzed = <<"a", " ", "-">>

-----------------------------------------------------------------------------
(* Scores.  A sub-score is an exact rational [num, den] with den > 0; a    *)
(* percentage rounded to two decimals is an integer number of hundredths   *)
(* (np.round rounds halves to even).                                       *)

Rat(n, d) == [num |-> n, den |-> d]

InUnitInterval(a) == 0 <= a.num /\ a.num <= a.den

Abs(x) == IF x < 0 THEN -x ELSE x

RECURSIVE Gcd(_, _)
Gcd(a, b) == IF b = 0 THEN a ELSE Gcd(b, a % b)

Lcm(a, b) == (a \div Gcd(a, b)) * b

\* A common denominator of four sub-scores.
CommonDen(a, b, c, d) == Lcm(Lcm(a.den, b.den), Lcm(c.den, d.den))

\* np.round(n / d, 0) for d > 0: the nearest integer, a half going to the even one.
RoundHalfEven(n, d) ==
    LET q == n \div d
        r == n % d
    IN  IF 2 * r < d THEN q
        ELSE IF 2 * r > d THEN q + 1
        ELSE IF q % 2 = 0 THEN q ELSE q + 1

\* The weights of _calculate_compatibility_score, in hundredths.
SimilarityWeight == 40

SkillsWeight == 40

ExperienceWeight == 15

EducationWeight == 5

\* The weighted sum with the experience weight mistyped as 0.5.
CalculateCompatibilityScoreExpHalf(similarity, skills, exp, edu) ==
    LET d == CommonDen(similarity, skills, exp, edu)
        n == SimilarityWeight * 100 * similarity.num * (d \div similarity.den)
             + SkillsWeight * 100 * skills.num * (d \div skills.den)
             + 50 * 100 * exp.num * (d \div exp.den)
             + EducationWeight * 100 * edu.num * (d \div edu.den)
    IN  RoundHalfEven(n, d)

\* _calculate_compatibility_score: round(weighted * 100, 2), in hundredths.
CalculateCompatibilityScore(similarity, skills, exp, edu) ==
    LET d == CommonDen(similarity, skills, exp, edu)
        n == SimilarityWeight * 100 * similarity.num * (d \div similarity.den)
             + SkillsWeight * 100 * skills.num * (d \div skills.den)
             + ExperienceWeight * 100 * exp.num * (d \div exp.den)
             + EducationWeight * 100 * edu.num * (d \div edu.den)
    IN  RoundHalfEven(n, d)

\* A breakdown rounded to one decimal instead of two.
FormatScoreBreakdownOneDecimal(similarity, skills, exp, edu) ==
    [semantic_similarity |-> 10 * RoundHalfEven(similarity.num * 1000, similarity.den),
     skill_coverage      |-> 10 * RoundHalfEven(skills.num * 1000, skills.den),
     experience_match    |-> 10 * RoundHalfEven(exp.num * 1000, exp.den),
     education_match     |-> 10 * RoundHalfEven(edu.num * 1000, edu.den)]

\* _format_score_breakdown: each sub-score as round(score * 100, 2), in hundredths.
FormatScoreBreakdown(similarity, skills, exp, edu) ==
    [semantic_similarity |-> RoundHalfEven(similarity.num * 10000, similarity.den),
     skill_coverage      |-> RoundHalfEven(skills.num * 10000, skills.den),
     experience_match    |-> RoundHalfEven(exp.num * 10000, exp.den),
     education_match     |-> RoundHalfEven(edu.num * 10000, edu.den)]

-----------------------------------------------------------------------------
(* Experience *)

\* Where a match of (\d+)\+?\s*years? (ignoring case) that starts at i ends;
\* 0 when there is none.  Each greedy part takes its longest run: a shorter
\* one would leave a character the next part cannot match.
DurationMatchEnd(t, i) ==
    IF ~(i <= Len(t) /\ IsDigit(t[i])) THEN 0
    ELSE LET d == RunEnd(t, i, DigitChars)
             p == IF d < Len(t) /\ t[d + 1] = "+" THEN d + 1 ELSE d
             w == RunEnd(t, p + 1, SpaceChars)
         IN  IF ~MatchAtI(t, w + 1, <<"y", "e", "a", "r">>) THEN 0
             ELSE IF w + 5 <= Len(t) /\ LowerChar[t[w + 5]] = "s" THEN w + 5
             ELSE w + 4

\* Where a match of (\d{4})\s*[-emdash]\s*(\d{4}|present) (ignoring case) that
\* starts at i ends; 0 when there is none.
RangeMatchEnd(t, i) ==
    IF ~(i + 3 <= Len(t) /\ \A k \in i .. (i + 3) : IsDigit(t[k])) THEN 0
    ELSE LET w == RunEnd(t, i + 4, SpaceChars)
         IN  IF ~(w < Len(t) /\ t[w + 1] \in {"-", "<emdash>"}) THEN 0
             ELSE LET v == RunEnd(t, w + 2, SpaceChars)
                  IN  IF v + 4 <= Len(t) /\ \A k \in (v + 1) .. (v + 4) : IsDigit(t[k])
                      THEN v + 4
                      ELSE IF MatchAtI(t, v + 1, <<"p", "r", "e", "s", "e", "n", "t">>)
                      THEN v + 7
                      ELSE 0

\* re.finditer over the duration pattern, from position p on.
RECURSIVE DurationsFrom(_, _)

\* The durations from position p on, e being where the match at p ends.
DurationsAt(t, p, e) ==
    IF e = 0 THEN DurationsFrom(t, p + 1)
    ELSE <<[type |-> "duration",
            value |-> IntOf(SubSeq(t, p, RunEnd(t, p, DigitChars)))]>>
         \o DurationsFrom(t, e + 1)

DurationsFrom(t, p) ==
    IF p > Len(t) THEN <<>> ELSE DurationsAt(t, p, DurationMatchEnd(t, p))

\* re.finditer over the range pattern, from position p on.
RECURSIVE RangesFrom(_, _, _)

\* The ranges from position p on, e being where the match at p ends.
RangesAt(t, p, e, current_year) ==
    IF e = 0 THEN RangesFrom(t, p + 1, current_year)
    ELSE LET start == IntOf(SubSeq(t, p, p + 3))
             end   == IF IsDigit(t[e]) THEN IntOf(SubSeq(t, e - 3, e))
                      ELSE current_year
         IN  <<[type |-> "range", years |-> end - start]>>
             \o RangesFrom(t, e + 1, current_year)

RangesFrom(t, p, current_year) ==
    IF p > Len(t) THEN <<>> ELSE RangesAt(t, p, RangeMatchEnd(t, p), current_year)

\* _extract_experience: the duration mentions, then the year ranges.
ExtractExperience(text, current_year) ==
    DurationsFrom(text, 1) \o RangesFrom(text, 1, current_year)

RECURSIVE SumYears(_)
SumYears(experiences) ==
    IF experiences = <<>> THEN 0
    ELSE (IF Head(experiences).type = "duration" THEN Head(experiences).value
          ELSE Head(experiences).years)
         + SumYears(Tail(experiences))

RECURSIVE FormatEach(_)
FormatEach(experiences) ==
    IF experiences = <<>> THEN <<>>
    ELSE LET exp == Head(experiences)
         IN  <<IF exp.type = "duration"
               THEN [years |-> exp.value, text |-> "+ years experience"]
               ELSE [years |-> exp.years, text |-> " years experience"]>>
             \o FormatEach(Tail(experiences))

\* _format_experience: one line per experience, and in front of them the
\* line "Total: N years" when the total is positive.
FormatExperience(experiences) ==
    LET total_years == SumYears(experiences)
    IN  (IF total_years > 0 THEN <<[years |-> total_years, text |-> "Total: years"]>>
         ELSE <<>>) \o FormatEach(experiences)

Senior == <<"s", "e", "n", "i", "o", "r">>

Junior == <<"j", "u", "n", "i", "o", "r">>

\* Required years with the senior and the junior figure exchanged.
RequiredYearsSwapped(position) ==
    IF Contains(Lower(position), Senior) THEN 2
    ELSE IF Contains(Lower(position), Junior) THEN 5
    ELSE 3

\* _calculate_experience_score: 5 if 'senior' in position else 2 if 'junior' ... else 3
RequiredYears(position) ==
    IF Contains(Lower(position), Senior) THEN 5
    ELSE IF Contains(Lower(position), Junior) THEN 2
    ELSE 3

\* float(min(total / required, 1.0)) if required > 0 else 0.0
ExperienceRatio(total, required) ==
    IF required > 0
    THEN (IF total >= required THEN Rat(1, 1) ELSE Rat(total, required))
    ELSE Rat(0, 1)

\* _calculate_experience_score
CalculateExperienceScore(text, position, current_year) ==
    ExperienceRatio(SumYears(ExtractExperience(text, current_year)),
                    RequiredYears(position))

\* experience_score >= 0.8 and education_score >= 0.8 in analyze's result.
AtLeastFourFifths(score) == 8 * score.den <= 10 * score.num

-----------------------------------------------------------------------------
(* Education *)

\* Whether \b(alt1|alt2|...)\b (ignoring case) matches somewhere in t.
SearchWords(t, alts) ==
    LET lt == Lower(t)
    IN  \E i \in 1 .. Len(t) : \E a \in alts :
            /\ MatchAt(lt, i, a)
            /\ WordBoundary(t, i)
            /\ WordBoundary(t, i + Len(a))

\* The spellings of B\.?S\.?|B\.?A\.?|M\.?S\.?|M\.?A\.?|PhD, in lower case.
DegreeSpellings ==
    {<<"p", "h", "d">>} \cup
    UNION {{<<x, y>>, <<x, ".", y>>, <<x, y, ".">>, <<x, ".", y, ".">>} :
           x \in {"b", "m"}, y \in {"s", "a"}}

\* Where the match of (degree.*?)(?=\n\w+|\Z) that starts at i ends, 0 when
\* none starts there: the rest of the line, when the text ends with it or the
\* next line starts with a word character.
EducationMatchEnd(t, i) ==
    LET lt == Lower(t)
        ds == {Len(v) : v \in {w \in DegreeSpellings :
                   MatchAt(lt, i, w) /\ WordBoundary(t, i + Len(w))}}
    IN  IF ~WordBoundary(t, i) \/ ds = {} THEN 0
        ELSE LET e == RunEnd(t, i, Chars \ {"\n"})
             IN  IF e = Len(t) THEN e
                 ELSE IF e + 2 <= Len(t) /\ IsWord(t[e + 2]) THEN e
                 ELSE 0

Http == <<"h", "t", "t", "p">>

\* if len(edu) > 5 and not re.search(r'http|@', edu): education.append(edu)
EducationEntry(edu) ==
    IF Len(edu) > 5 /\ ~Contains(edu, Http) /\ ~Contains(edu, <<"@">>)
    THEN <<edu>> ELSE <<>>

RECURSIVE EducationFrom(_, _)

\* The entries from position i on, e being where the match at i ends.
EducationAt(t, i, e) ==
    IF e = 0 THEN EducationFrom(t, i + 1)
    ELSE EducationEntry(Strip(SubSeq(t, i, e))) \o EducationFrom(t, e + 1)

\* re.finditer over the degree pattern, from position i on.
EducationFrom(t, i) ==
    IF i > Len(t) THEN <<>> ELSE EducationAt(t, i, EducationMatchEnd(t, i))

\* _extract_education
ExtractEducation(text) == EducationFrom(text, 1)

\* _calculate_education_score: the share of {bachelor, master, phd} that the
\* resume text mentions (job_desc is not read).
CalculateEducationScore(resume_text, job_desc) ==
    LET candidate_degrees ==
            (IF SearchWords(resume_text, {<<"b", "s">>, <<"b", ".", "s">>,
                                          <<"b", "a", "c", "h", "e", "l", "o", "r">>})
             THEN {"bachelor"} ELSE {})
            \cup (IF SearchWords(resume_text, {<<"m", "s">>, <<"m", ".", "s">>,
                                               <<"m", "a", "s", "t", "e", "r">>})
                  THEN {"master"} ELSE {})
            \cup (IF SearchWords(resume_text, {<<"p", "h", "d">>,
                                               <<"d", "o", "c", "t", "o", "r", "a", "t", "e">>})
                  THEN {"phd"} ELSE {})
        required_degrees == {"bachelor", "master", "phd"}
    IN  IF required_degrees = {} THEN Rat(1, 1)
        ELSE Rat(Cardinality(candidate_degrees \cap required_degrees),
                 Cardinality(required_degrees))

-----------------------------------------------------------------------------
(* Links *)

\* Where a match of https?://[^\s/$.?#].[^\s]* that starts at i ends; 0 when
\* there is none.
LinkMatchEnd(t, i) ==
    IF ~MatchAt(t, i, <<"h", "t", "t", "p">>) THEN 0
    ELSE LET c == IF MatchAt(t, i + 4, <<"s", ":", "/", "/">>) THEN i + 8
                  ELSE IF MatchAt(t, i + 4, <<":", "/", "/">>) THEN i + 7
                  ELSE 0
         IN  IF c = 0 \/ c + 1 > Len(t) THEN 0
             ELSE IF IsSpace(t[c]) \/ t[c] \in {"/", "$", ".", "?", "#"} THEN 0
             ELSE IF t[c + 1] = "\n" THEN 0
             ELSE RunEnd(t, c + 2, NonSpaceChars)

\* re.findall over the link pattern, from position p on.
RECURSIVE LinksFrom(_, _)

\* The links from position p on, e being where the match at p ends.
LinksAt(t, p, e) ==
    IF e = 0 THEN LinksFrom(t, p + 1)
    ELSE <<SubSeq(t, p, e)>> \o LinksFrom(t, e + 1)

LinksFrom(t, p) ==
    IF p > Len(t) THEN <<>> ELSE LinksAt(t, p, LinkMatchEnd(t, p))

\* list(S) for a set of strings: the iteration order of a set is fixed by the
\* strings' hashes, which the interpreter's hash seed fixes for the life of
\* the process.  Every order is the order of some seed.
RECURSIVE ListOfSet(_, _)
ListOfSet(S, seed) ==
    IF S = {} THEN <<>>
    ELSE LET sorted == SortLexical(S)
             first  == sorted[(seed % Cardinality(S)) + 1]
         IN  <<first>> \o ListOfSet(S \ {first}, seed \div Cardinality(S))

\* _extract_links: list(set(re.findall(...)))
ExtractLinks(text, seed) == ListOfSet(Range(LinksFrom(text, 1)), seed)

-----------------------------------------------------------------------------
(* The language model (spaCy's en_core_web_lg) is not code of the          *)
(* repository.  It is a fixed function of the text; two stand-ins that     *)
(* differ in how they cut noun chunks take its place.  A word is a maximal *)
(* run of characters that are not whitespace.                              *)

LanguageModels == {[chunks |-> "words"], [chunks |-> "phrases"]}

StopWords == {<<"t", "h", "e">>, <<"a", "n", "d">>, <<"o", "f">>, <<"w", "i", "t", "h">>}

\* The pieces of t between the characters of seps (re.split on one character).
RECURSIVE SplitOn(_, _)
SplitOn(t, seps) ==
    LET cuts == {i \in DOMAIN t : t[i] \in seps}
    IN  IF cuts = {} THEN <<t>>
        ELSE <<SubSeq(t, 1, Min(cuts) - 1)>>
             \o SplitOn(SubSeq(t, Min(cuts) + 1, Len(t)), seps)

\* str.split(): the words of t.
Words(t) == SelectSeq(SplitOn(t, SpaceChars), LAMBDA w : w # <<>>)

\* doc.noun_chunks: every word, or every stretch between commas and semicolons.
NounChunks(nlp, text) ==
    IF nlp.chunks = "words" THEN Words(text)
    ELSE SelectSeq(StripEach(SplitOn(text, {",", ";"})), LAMBDA c : c # <<>>)

\* any(token.is_stop for token in chunk)
HasStopWord(chunk) == \E w \in Range(Words(chunk)) : Lower(w) \in StopWords

\* str.isnumeric()
IsNumeric(t) == t # <<>> /\ \A i \in DOMAIN t : IsDigit(t[i])

IsCapitalized(w) ==
    /\ Len(w) >= 2
    /\ IsUpper(w[1])
    /\ \A i \in 2 .. Len(w) : IsLower(w[i])

\* The pairs of capitalized words in a row among the words ws.
CapitalizedPairs(ws) ==
    LET at == {i \in 1 .. (Len(ws) - 1) : IsCapitalized(ws[i]) /\ IsCapitalized(ws[i + 1])}
    IN  [k \in 1 .. Cardinality(at) |->
            LET i == CHOOSE j \in at : Cardinality({h \in at : h < j}) = k - 1
            IN  ws[i] \o <<" ">> \o ws[i + 1]]

\* doc.ents with label PERSON: two capitalized words in a row.
PersonEntities(nlp, text) == CapitalizedPairs(Words(text))

\* doc.vector_norm is zero for a text without words.
HasVector(nlp, text) == Words(text) # <<>>

\* The common words of two sets of words against the words that the poorer
\* set lacks, a value in [-1, 1].
WordOverlap(w1, w2) ==
    LET common == Cardinality(w1 \cap w2)
        other  == Min({Cardinality(w1 \ w2), Cardinality(w2 \ w1)})
    IN  IF common + other = 0 THEN Rat(1, 1) ELSE Rat(common - other, common + other)

\* cosine_similarity of the two document vectors: here the overlap of the
\* words of the two texts.
CosineSimilarity(nlp, text1, text2) ==
    WordOverlap(Range(Words(Lower(text1))), Range(Words(Lower(text2))))

\* np.clip(x, 0.0, 1.0)
Clip01(x) == IF x.num < 0 THEN Rat(0, 1) ELSE IF x.num > x.den THEN Rat(1, 1) ELSE x

\* _calculate_semantic_similarity
CalculateSemanticSimilarity(nlp, text1, text2) ==
    IF ~HasVector(nlp, text1) \/ ~HasVector(nlp, text2) THEN Rat(0, 1)
    ELSE Clip01(CosineSimilarity(nlp, text1, text2))

-----------------------------------------------------------------------------
(* Personal information *)

EmailChars == WordChars \cup {".", "-"}

\* Where a match of \b[\w\.-]+@[\w\.-]+\.\w{2,}\b that starts at i ends; 0
\* when there is none.  The local part is the run up to the "@"; the domain
\* is cut at its last dot that two or more word characters follow.
EmailMatchEnd(t, i) ==
    IF ~(i <= Len(t) /\ t[i] \in EmailChars /\ WordBoundary(t, i)) THEN 0
    ELSE LET l == RunEnd(t, i, EmailChars)
         IN  IF ~(l < Len(t) /\ t[l + 1] = "@") THEN 0
             ELSE LET r == RunEnd(t, l + 2, EmailChars)
                      dots == {d \in (l + 3) .. r :
                                  /\ t[d] = "."
                                  /\ RunEnd(t, d + 1, WordChars) >= d + 2}
                  IN  IF dots = {} THEN 0
                      ELSE RunEnd(t, Max(dots) + 1, WordChars)

PhoneChars == DigitChars \cup SpaceChars \cup {"(", ")", "-"}

\* Where a match of \b\+?[\d\s()-]{10,}\d\b that starts at i ends; 0 when
\* there is none.
PhoneMatchEnd(t, i) ==
    IF ~(i <= Len(t) /\ t[i] \in PhoneChars \cup {"+"} /\ WordBoundary(t, i)) THEN 0
    ELSE LET j == IF t[i] = "+" THEN i + 1 ELSE i
             r == RunEnd(t, j, PhoneChars)
             ends == {e \in (j + 10) .. r : IsDigit(t[e]) /\ WordBoundary(t, e + 1)}
         IN  IF ends = {} THEN 0 ELSE Max(ends)

\* re.search(...).group() if there is a match else '': the text of the first
\* match; ends[i] is where the match that starts at i ends, 0 when none does.
FirstMatch(text, ends) ==
    LET at == {i \in DOMAIN ends : ends[i] > 0}
    IN  IF at = {} THEN <<>> ELSE SubSeq(text, Min(at), ends[Min(at)])

\* next(iter(names), '')
FirstOrEmpty(names) == IF names = <<>> THEN <<>> ELSE names[1]

\* _extract_personal_info
ExtractPersonalInfo(nlp, text, seed) ==
    [name  |-> FirstOrEmpty(PersonEntities(nlp, text)),
     email |-> FirstMatch(text, [i \in DOMAIN text |-> EmailMatchEnd(text, i)]),
     phone |-> SelectSeq(FirstMatch(text, [i \in DOMAIN text |-> PhoneMatchEnd(text, i)]),
                         LAMBDA c : IsDigit(c)),
     links |-> ExtractLinks(text, seed)]

-----------------------------------------------------------------------------
(* Skills *)

\* self.skill_blacklist
SkillBlacklist ==
    {<<"h", "t", "t", "p">>,
     <<"g", "i", "t", "h", "u", "b">>,
     <<"c", "o", "n", "t", "r", "i", "b", "u", "t", "i", "o", "n">>,
     <<"j", "a", "n", "u", "a", "r", "y">>,
     <<"f", "e", "b", "r", "u", "a", "r", "y">>,
     <<"c", "o", "m", "p", "a", "n", "y">>,
     <<"o", "w", "n", "e", "r">>}

\* The section names that _extract_skills asks _extract_section for.
SkillSectionNames ==
    {<<"s", "k", "i", "l", "l", "s">>,
     <<"t", "e", "c", "h", "n", "i", "c", "a", "l", " ", "s", "k", "i", "l", "l", "s">>,
     <<"c", "o", "m", "p", "e", "t", "e", "n", "c", "i", "e", "s">>}

\* section_pattern.match(line.strip()): ^\s*(names)\s*:*\s*$, ignoring case.
IsSectionHeading(stripped, names) ==
    \E n \in names :
        /\ MatchAtI(stripped, 1, n)
        /\ LET w == RunEnd(stripped, Len(n) + 1, SpaceChars)
               c == RunEnd(stripped, w + 1, {":"})
           IN  RunEnd(stripped, c + 1, SpaceChars) = Len(stripped)

\* re.match(r'^\s*$', line)
IsBlankLine(line) == \A i \in DOMAIN line : IsSpace(line[i])

\* re.match(r'^\s*[A-Z][A-Z ]+:', line)
IsCapsHeading(line) ==
    LET w == RunEnd(line, 1, SpaceChars)
        m == RunEnd(line, w + 2, UpperChars \cup {" "})
    IN  /\ w < Len(line)
        /\ IsUpper(line[w + 1])
        /\ m >= w + 2
        /\ m < Len(line)
        /\ line[m + 1] = ":"

\* The loop of _extract_section from line k on.
RECURSIVE CaptureFrom(_, _, _, _)
CaptureFrom(lines, k, capture, names) ==
    IF k > Len(lines) THEN <<>>
    ELSE IF IsSectionHeading(Strip(lines[k]), names)
         THEN CaptureFrom(lines, k + 1, TRUE, names)
    ELSE IF ~capture THEN CaptureFrom(lines, k + 1, FALSE, names)
    ELSE IF IsBlankLine(lines[k]) \/ IsCapsHeading(lines[k]) THEN <<>>
    ELSE <<Strip(lines[k])>> \o CaptureFrom(lines, k + 1, TRUE, names)

\* ' '.join(lines)
RECURSIVE JoinWithSpace(_)
JoinWithSpace(lines) ==
    IF lines = <<>> THEN <<>>
    ELSE IF Len(lines) = 1 THEN lines[1]
    ELSE lines[1] \o <<" ">> \o JoinWithSpace(Tail(lines))

\* _extract_section
ExtractSection(text, names) ==
    JoinWithSpace(CaptureFrom(SplitOn(text, {"\n"}), 1, FALSE, names))

\* re.sub(r'[\d\.%]|years?|http[s]?://\S+', '', line, flags=re.I) from
\* position i on.
RECURSIVE RemoveNoiseFrom(_, _)
RemoveNoiseFrom(t, i) ==
    IF i > Len(t) THEN <<>>
    ELSE IF IsDigit(t[i]) \/ t[i] \in {".", "%"} THEN RemoveNoiseFrom(t, i + 1)
    ELSE IF MatchAtI(t, i, <<"y", "e", "a", "r">>)
         THEN (IF i + 4 <= Len(t) /\ LowerChar[t[i + 4]] = "s"
               THEN RemoveNoiseFrom(t, i + 5)
               ELSE RemoveNoiseFrom(t, i + 4))
    ELSE LET c == IF MatchAtI(t, i, <<"h", "t", "t", "p", "s", ":", "/", "/">>) THEN i + 8
                  ELSE IF MatchAtI(t, i, <<"h", "t", "t", "p", ":", "/", "/">>) THEN i + 7
                  ELSE 0
         IN  IF c > 0 /\ c <= Len(t) /\ ~IsSpace(t[c])
             THEN RemoveNoiseFrom(t, RunEnd(t, c, NonSpaceChars) + 1)
             ELSE <<t[i]>> \o RemoveNoiseFrom(t, i + 1)

\* re.split(r'\s{2,}|- |/|bullet', line) from position i on; piece is the
\* text since the last separator.
RECURSIVE SplitSkillLine(_, _, _)
SplitSkillLine(t, i, piece) ==
    IF i > Len(t) THEN <<piece>>
    ELSE LET w == RunEnd(t, i, SpaceChars)
         IN  IF w >= i + 1 THEN <<piece>> \o SplitSkillLine(t, w + 1, <<>>)
             ELSE IF MatchAt(t, i, <<"-", " ">>)
                  THEN <<piece>> \o SplitSkillLine(t, i + 2, <<>>)
             ELSE IF t[i] \in {"/", "<bullet>"}
                  THEN <<piece>> \o SplitSkillLine(t, i + 1, <<>>)
             ELSE SplitSkillLine(t, i + 1, Append(piece, t[i]))

\* sorted(tokens): the words ws in lexical order, repeats kept.
SortedWords(ws) ==
    LET rank(i) == Cardinality({j \in DOMAIN ws :
                       StrLess(ws[j], ws[i]) \/ (ws[j] = ws[i] /\ j < i)}) + 1
    IN  [k \in DOMAIN ws |-> ws[CHOOSE i \in DOMAIN ws : rank(i) = k]]

\* One row of the longest-common-subsequence table: row[j + 1] is the length
\* for the first j characters of t, prev is the row before c was added.
RECURSIVE LcsRow(_, _, _, _)
LcsRow(prev, c, t, row) ==
    IF Len(row) = Len(t) + 1 THEN row
    ELSE LET j == Len(row)
             v == IF t[j] = c THEN prev[j] + 1
                  ELSE IF prev[j + 1] >= row[j] THEN prev[j + 1] ELSE row[j]
         IN  LcsRow(prev, c, t, Append(row, v))

RECURSIVE LcsRows(_, _, _, _)
LcsRows(s, t, i, prev) ==
    IF i > Len(s) THEN prev
    ELSE LcsRows(s, t, i + 1, LcsRow(prev, s[i], t, <<0>>))

\* The length of a longest common subsequence of s and t.
Lcs(s, t) == LcsRows(s, t, 1, [j \in 1 .. (Len(t) + 1) |-> 0])[Len(t) + 1]

\* The words of t sorted and joined again, as fuzz.token_sort_ratio compares them.
SortTokens(t) == JoinWithSpace(SortedWords(Words(t)))

\* fuzz.ratio: 100 * 2 * lcs / (len1 + len2), 100 when both strings are
\* empty, as the pair <<2 * lcs, len1 + len2>>.
Ratio(a, b) ==
    IF Len(a) + Len(b) = 0 THEN <<1, 1>> ELSE <<2 * Lcs(a, b), Len(a) + Len(b)>>

\* fuzz.token_sort_ratio: the ratio of the two strings with their words sorted.
TokenSortRatio(s1, s2) == Ratio(SortTokens(s1), SortTokens(s2))

\* The cutoff of process.extractOne in _match_known_skill.
ScoreCutoff == 85

\* process.extractOne(skill, known_skills, scorer, score_cutoff): score[i] is
\* the score of known_skills[i]; the best-scoring choice (the first of
\* equals) if it reaches the cutoff, <<>> (None) otherwise.
ExtractOne(known_skills, score) ==
    LET higher(i, j) == score[i][1] * score[j][2] > score[j][1] * score[i][2]
        ok == {i \in DOMAIN known_skills :
                  100 * score[i][1] >= ScoreCutoff * score[i][2]}
        best == {i \in ok : \A j \in ok : ~higher(j, i) /\ (j < i => higher(i, j))}
    IN  IF ok = {} THEN <<>> ELSE known_skills[CHOOSE i \in best : TRUE]

\* _match_known_skill: the fragment itself without a vocabulary, else the
\* known skill that extractOne picks.
MatchKnownSkill(known_skills, skill) ==
    IF known_skills = <<>> THEN skill
    ELSE ExtractOne(known_skills,
                    [i \in DOMAIN known_skills |-> TokenSortRatio(skill, known_skills[i])])

\* The pieces with 3 <= len(x) <= 40.
SkillSized(pieces) == SelectSeq(pieces, LAMBDA q : 3 <= Len(q) /\ Len(q) <= 40)

\* The matches of the pieces that have one.
MatchEach(known_skills, pieces) ==
    SelectSeq([i \in DOMAIN pieces |-> MatchKnownSkill(known_skills, pieces[i])],
              LAMBDA m : m # <<>>)

\* _process_skill_line
ProcessSkillLine(known_skills, line) ==
    MatchEach(known_skills, SkillSized(StripEach(SplitSkillLine(line, 1, <<>>))))

\* _is_valid_skill
IsValidSkill(skill, blacklist) ==
    /\ \E i \in DOMAIN skill : IsLower(skill[i])
    /\ \A b \in blacklist : ~Contains(Lower(skill), b)
    /\ ~\E i \in DOMAIN skill : skill[i] = "@" \/ IsDigit(skill[i])
    /\ \A m \in {<<".", "c", "o", "m">>, <<"y", "e", "a", "r">>, <<"m", "o", "n", "t", "h">>, <<"h", "t", "t", "p">>} : ~Contains(skill, m)

\* _extract_noun_phrases
ExtractNounPhrases(nlp, text) ==
    StripEach(LowerEach(SelectSeq(NounChunks(nlp, text),
                  LAMBDA chunk : /\ 3 < Len(chunk)
                                 /\ Len(chunk) < 50
                                 /\ ~HasStopWord(chunk)
                                 /\ ~IsNumeric(chunk))))

\* The key (-len(x), x) of the sorts.
LongerThenLexical(x, y) == Len(x) > Len(y) \/ (Len(x) = Len(y) /\ StrLess(x, y))

\* sorted(S, key=lambda x: (-len(x), x)) for a set of strings.
SortByLength(S) ==
    [i \in 1 .. Cardinality(S) |->
        CHOOSE x \in S : Cardinality({y \in S : LongerThenLexical(y, x)}) = i - 1]

\* re.sub(noise, '', line).strip() for each line.
RemoveNoiseEach(lines) == [i \in DOMAIN lines |-> Strip(RemoveNoiseFrom(lines[i], 1))]

\* skills.extend(self._process_skill_line(line)) for each line.
ProcessEach(known_skills, lines) ==
    Flatten([i \in DOMAIN lines |-> ProcessSkillLine(known_skills, lines[i])])

\* The skills that the lines of the skills section give.
SectionSkills(known_skills, section_text) ==
    ProcessEach(known_skills,
                SkillSized(RemoveNoiseEach(SplitOn(section_text, {"\n", ",", ";"}))))

\* The end of _extract_skills: the noun phrases when the section gave no
\* skill, else the valid skills in lower case, without repeats, longest first.
FallbackOrClean(self, text, skills) ==
    IF skills = <<>> THEN ExtractNounPhrases(self.nlp, text)
    ELSE SortByLength({Strip(Lower(skills[i])) :
                          i \in {j \in DOMAIN skills :
                                    IsValidSkill(skills[j], self.skill_blacklist)}})

\* _extract_skills
ExtractSkills(self, text) ==
    FallbackOrClean(self, text,
                    SectionSkills(self.known_skills,
                                  ExtractSection(text, SkillSectionNames)))

-----------------------------------------------------------------------------
(* The analyzer and analyze *)

\* datetime.datetime.now().year when the analyzer was constructed.
CurrentYear == 2026

\* The cells of the skills CSV file.
SkillsCsvCells ==
    {<<"P", "y", "t", "h", "o", "n">>,
     <<"p", "y", "t", "h", "o", "n">>,
     <<"D", "j", "a", "n", "g", "o">>,
     <<"S", "Q", "L">>,
     <<"M", "a", "c", "h", "i", "n", "e", " ", "L", "e", "a", "r", "n", "i", "n", "g">>}

\* _load_skills: the cells in lower case, without repeats, longest first.
LoadSkills(cells) == SortByLength({Lower(c) : c \in cells})

\* __init__: the fields of a new ResumeAnalyzer.
NewAnalyzer(nlp, cells) ==
    [nlp             |-> nlp,
     known_skills    |-> IF cells = {} THEN <<>> ELSE LoadSkills(cells),
     current_year    |-> CurrentYear,
     skill_blacklist |-> SkillBlacklist]

\* job_data.get(key, '')
Get(job_data, key) == IF key \in DOMAIN job_data THEN job_data[key] ELSE <<>>

\* analyze: job_desc = self._clean_text(f"{description} {requirements}")
JobDescription(job_data) ==
    CleanText(Get(job_data, "description") \o <<" ">> \o Get(job_data, "requirements"))

\* _calculate_skill_score that gives 0.0 when nothing is required.
CalculateSkillScoreZeroWhenEmpty(cv_skills, required_skills) ==
    IF required_skills = <<>> THEN Rat(0, 1)
    ELSE Rat(Cardinality({i \in DOMAIN required_skills :
                             Lower(required_skills[i]) \in Range(cv_skills)}),
             Len(required_skills))

\* _calculate_skill_score
CalculateSkillScore(cv_skills, required_skills) ==
    IF required_skills = <<>> THEN Rat(1, 1)
    ELSE Rat(Cardinality({i \in DOMAIN required_skills :
                             Lower(required_skills[i]) \in Range(cv_skills)}),
             Len(required_skills))

\* _find_missing_skills that keeps the skills of three characters too.
FindMissingSkillsFromThree(cv_skills, required_skills) ==
    SortLexical({Lower(required_skills[i]) :
                    i \in {j \in DOMAIN required_skills :
                              /\ Lower(required_skills[j]) \notin Range(cv_skills)
                              /\ Len(required_skills[j]) >= 3}})

\* _find_missing_skills
FindMissingSkills(cv_skills, required_skills) ==
    SortLexical({Lower(required_skills[i]) :
                    i \in {j \in DOMAIN required_skills :
                              /\ Lower(required_skills[j]) \notin Range(cv_skills)
                              /\ Len(required_skills[j]) > 3}})

-----------------------------------------------------------------------------
(* Texts and job data *)

\* 'John Doe john@example.com 2018-2022 Python Django'
ResumeJohnDoe ==
    <<"J", "o", "h", "n", " ", "D", "o", "e", " ", "j", "o", "h", "n", "@",
      "e", "x", "a", "m", "p", "l", "e", ".", "c", "o", "m", " ", "2", "0",
      "1", "8", "-", "2", "0", "2", "2", " ", "P", "y", "t", "h", "o", "n",
      " ", "D", "j", "a", "n", "g", "o">>

\* 'Ann Lee +1 (555) 123-4567 5+ years, 2015 - present B.S. PhD http://b.io http://a.io'
ResumeLongCareer ==
    <<"A", "n", "n", " ", "L", "e", "e", " ", "+", "1", " ", "(", "5", "5",
      "5", ")", " ", "1", "2", "3", "-", "4", "5", "6", "7", " ", "5", "+",
      " ", "y", "e", "a", "r", "s", ",", " ", "2", "0", "1", "5", " ", "-",
      " ", "p", "r", "e", "s", "e", "n", "t", " ", "B", ".", "S", ".", " ",
      "P", "h", "D", " ", "h", "t", "t", "p", ":", "/", "/", "b", ".", "i",
      "o", " ", "h", "t", "t", "p", ":", "/", "/", "a", ".", "i", "o">>

\* '2022-2018 Java and SQL'
ResumeReversedRange ==
    <<"2", "0", "2", "2", "-", "2", "0", "1", "8", " ", "J", "a", "v", "a",
      " ", "a", "n", "d", " ", "S", "Q", "L">>

\* '3 years  Django\n•  python; M.S'
ResumeThreeYears ==
    <<"3", " ", "y", "e", "a", "r", "s", " ", " ", "D", "j", "a", "n", "g",
      "o", "\n", "<bullet>", " ", " ", "p", "y", "t", "h", "o", "n", ";",
      " ", "M", ".", "S">>

\* ''
ResumeEmpty ==
    <<>>

\* Job data as the caller of analyze supplies it (description, requirements,
\* position) and as JobAPIClient.get_job_details returns it (its required
\* fields include 'requirement'; the ones analyze never reads are left out).

\* {'description': 'Python Django required', 'position': 'Senior Engineer'}
JobSeniorPython ==
    [description |-> <<"P", "y", "t", "h", "o", "n", " ", "D", "j", "a", "n", "g", "o",
                       " ", "r", "e", "q", "u", "i", "r", "e", "d">>,
     position    |-> <<"S", "e", "n", "i", "o", "r", " ", "E", "n", "g", "i", "n", "e",
                       "e", "r">>]

\* {'description': 'Backend role', 'requirements': 'Django, SQL',
\*  'position': 'JUNIOR to Senior'}
JobWithRequirements ==
    [description  |-> <<"B", "a", "c", "k", "e", "n", "d", " ", "r", "o", "l", "e">>,
     requirements |-> <<"D", "j", "a", "n", "g", "o", ",", " ", "S", "Q", "L">>,
     position     |-> <<"J", "U", "N", "I", "O", "R", " ", "t", "o", " ", "S", "e", "n",
                        "i", "o", "r">>]

\* {'description': 'Backend role', 'requirement': 'Python', 'position': 'junior dev'}
JobFromApi ==
    [description |-> <<"B", "a", "c", "k", "e", "n", "d", " ", "r", "o", "l", "e">>,
     requirement |-> <<"P", "y", "t", "h", "o", "n">>,
     position    |-> <<"j", "u", "n", "i", "o", "r", " ", "d", "e", "v">>]

\* {'title': 'Engineer'}
JobTitleOnly == [title |-> <<"E", "n", "g", "i", "n", "e", "e", "r">>]

\* The (resume_text, job_data) pairs analyze is called with.
AnalyzeArguments ==
    {<<ResumeJohnDoe, JobSeniorPython>>, <<ResumeJohnDoe, JobFromApi>>,
     <<ResumeReversedRange, JobSeniorPython>>, <<ResumeThreeYears, JobSeniorPython>>,
     <<ResumeThreeYears, JobFromApi>>, <<ResumeLongCareer, JobWithRequirements>>,
     <<ResumeLongCareer, JobTitleOnly>>, <<ResumeEmpty, JobTitleOnly>>}

-----------------------------------------------------------------------------
(* analyze, statement by statement, for several calls on one analyzer.      *)

\* Largest hash seed tried: with at most two links in a text, the seeds
\* 0 .. 1 give every order a set of links can be listed in.
MaxSeed == 1

CallIds == {1, 2}

NoResult == [compatibility_score |-> 0]

InitAnalyze ==
    /\ \E nlp \in LanguageModels : analyzer = NewAnalyzer(nlp, SkillsCsvCells)
    /\ hashSeed \in 0 .. MaxSeed
    /\ calls \in [CallIds -> {[pc |-> "called", resume_text |-> a[1], job_data |-> a[2],
                               text |-> <<>>, cv_data |-> <<>>, job_desc |-> <<>>,
                               required_skills |-> <<>>, similarity_score |-> Rat(0, 1),
                               skill_score |-> Rat(0, 1), experience_score |-> Rat(0, 1),
                               education_score |-> Rat(0, 1), compatibility_score |-> 0,
                               result |-> NoResult] :
                              a \in AnalyzeArguments}]
    /\ cleanT = Idle
    /\ scoreT = Idle
    /\ skillT = Idle
    /\ NoView

\* resume_text = self._clean_text(resume_text)
Clean(c) ==
    /\ calls[c].pc = "called"
    /\ calls' = [calls EXCEPT ![c].pc = "cleaned",
                              ![c].text = CleanText(calls[c].resume_text)]
    /\ UNCHANGED <<analyzer, hashSeed, cleanT, scoreT, skillT, viewVars>>

\* A cv_data step that adds the skills it found to the shared vocabulary.
BuildCvDataLearning(c) ==
    /\ calls[c].pc = "cleaned"
    /\ calls' = [calls EXCEPT
           ![c].pc = "profiled",
           ![c].cv_data =
               [personal_info |-> ExtractPersonalInfo(analyzer.nlp, calls[c].text, hashSeed),
                skills        |-> ExtractSkills(analyzer, calls[c].text),
                experience    |-> FormatExperience(
                                      ExtractExperience(calls[c].text, analyzer.current_year)),
                education     |-> ExtractEducation(calls[c].text),
                links         |-> ExtractLinks(calls[c].text, hashSeed)]]
    /\ analyzer' = [analyzer EXCEPT
           !.known_skills = SortByLength(Range(analyzer.known_skills) \cup
                                         Range(ExtractSkills(analyzer, calls[c].text)))]
    /\ UNCHANGED <<hashSeed, cleanT, scoreT, skillT, viewVars>>

\* cv_data = {'personal_info': ..., 'skills': ..., ..., 'links': ...}
BuildCvData(c) ==
    /\ calls[c].pc = "cleaned"
    /\ calls' = [calls EXCEPT
           ![c].pc = "profiled",
           ![c].cv_data =
               [personal_info |-> ExtractPersonalInfo(analyzer.nlp, calls[c].text, hashSeed),
                skills        |-> ExtractSkills(analyzer, calls[c].text),
                experience    |-> FormatExperience(
                                      ExtractExperience(calls[c].text, analyzer.current_year)),
                education     |-> ExtractEducation(calls[c].text),
                links         |-> ExtractLinks(calls[c].text, hashSeed)]]
    /\ UNCHANGED <<analyzer, hashSeed, cleanT, scoreT, skillT, viewVars>>

\* job_desc = ...; required_skills = self._extract_skills(job_desc)
ReadJob(c) ==
    /\ calls[c].pc = "profiled"
    /\ calls' = [calls EXCEPT
           ![c].pc = "job_read",
           ![c].job_desc = JobDescription(calls[c].job_data),
           ![c].required_skills = ExtractSkills(analyzer, JobDescription(calls[c].job_data))]
    /\ UNCHANGED <<analyzer, hashSeed, cleanT, scoreT, skillT, viewVars>>

\* The call's frame once the four sub-scores and compatibility_score are set.
WithScores(call, similarity_score, skill_score, experience_score, education_score) ==
    [call EXCEPT
        !.pc = "scored",
        !.similarity_score = similarity_score,
        !.skill_score = skill_score,
        !.experience_score = experience_score,
        !.education_score = education_score,
        !.compatibility_score =
            CalculateCompatibilityScore(similarity_score, skill_score,
                                        experience_score, education_score)]

\* The four sub-scores and compatibility_score.
Score(c) ==
    /\ calls[c].pc = "job_read"
    /\ calls' = [calls EXCEPT ![c] =
           WithScores(calls[c],
                      CalculateSemanticSimilarity(analyzer.nlp, calls[c].text,
                                                  calls[c].job_desc),
                      CalculateSkillScore(calls[c].cv_data.skills,
                                          calls[c].required_skills),
                      CalculateExperienceScore(calls[c].text,
                                               Get(calls[c].job_data, "position"),
                                               analyzer.current_year),
                      CalculateEducationScore(calls[c].text, calls[c].job_desc))]
    /\ UNCHANGED <<analyzer, hashSeed, cleanT, scoreT, skillT, viewVars>>

\* return {...}
Return(c) ==
    /\ calls[c].pc = "scored"
    /\ calls' = [calls EXCEPT
           ![c].pc = "returned",
           ![c].result =
               [compatibility_score |-> calls[c].compatibility_score,
                missing_skills      |-> FindMissingSkills(calls[c].cv_data.skills,
                                                          calls[c].required_skills),
                experience_match    |-> AtLeastFourFifths(calls[c].experience_score),
                education_match     |-> AtLeastFourFifths(calls[c].education_score),
                cv_data             |-> calls[c].cv_data.personal_info,
                score_breakdown     |->
                    FormatScoreBreakdown(calls[c].similarity_score, calls[c].skill_score,
                                         calls[c].experience_score,
                                         calls[c].education_score)]]
    /\ UNCHANGED <<analyzer, hashSeed, cleanT, scoreT, skillT, viewVars>>

Next ==
    \E c \in CallIds :
        \/ Clean(c)
        \/ BuildCvData(c)
        \/ ReadJob(c)
        \/ Score(c)
        \/ Return(c)

Spec == InitAnalyze /\ [][Next]_vars

\* The calls whose sub-scores have been computed.
Scored == {c \in CallIds : calls[c].pc \in {"scored", "returned"}}

Returned == {c \in CallIds : calls[c].pc = "returned"}

\* C2: for every resume text and job data, each of the four sub-scores that
\* analyze computes lies in [0,1] and the compatibility_score lies in
\* [0,100] (here in hundredths), reversed year ranges included.
C2_SubScoresInUnitInterval ==
    \A c \in Scored :
        /\ InUnitInterval(calls[c].similarity_score)
        /\ InUnitInterval(calls[c].skill_score)
        /\ InUnitInterval(calls[c].experience_score)
        /\ InUnitInterval(calls[c].education_score)
        /\ 0 <= calls[c].compatibility_score
        /\ calls[c].compatibility_score <= 10000

\* C3: the experience sub-score is min(total/required, 1.0), total being the
\* sum of the years of all extracted mentions and required 5 for a position
\* containing "senior", else 2 for one containing "junior", else 3; and the
\* result's experience_match is true exactly when the sub-score is >= 0.8.
C3_ExperienceScoreAndFlag ==
    /\ \A c \in Scored :
           LET total    == SumYears(ExtractExperience(calls[c].text, analyzer.current_year))
               position == Lower(Get(calls[c].job_data, "position"))
               required == IF Contains(position, Senior) THEN 5
                           ELSE IF Contains(position, Junior) THEN 2 ELSE 3
               score    == calls[c].experience_score
           IN  IF total >= required
               THEN score.num = score.den
               ELSE score.num * required = total * score.den
    /\ \A c \in Returned :
           calls[c].result.experience_match
               <=> (10 * calls[c].experience_score.num >= 8 * calls[c].experience_score.den)

\* Four years against a senior position: 0.8 and true; three years: 0.6 and false.
C3_Witness ==
    /\ calls[1].pc = "returned"
    /\ calls[1].resume_text = ResumeJohnDoe
    /\ calls[1].job_data = JobSeniorPython
    /\ calls[1].experience_score = Rat(4, 5)
    /\ calls[1].result.experience_match
    /\ calls[2].pc = "returned"
    /\ calls[2].resume_text = ResumeThreeYears
    /\ calls[2].job_data = JobSeniorPython
    /\ calls[2].experience_score = Rat(3, 5)
    /\ ~calls[2].result.experience_match

\* The calls whose job_desc and required_skills have been derived.
JobRead == {c \in CallIds : calls[c].pc \in {"job_read", "scored", "returned"}}

\* C7: analyze derives the required skills from the description together
\* with the requirements text, whether the job data carries that text under
\* `requirements` or under `requirement`: the text of either key is part of
\* the job text the skills are extracted from, and each of its words that
\* the extraction would keep on its own is among required_skills.
C7_RequirementTextIsRead ==
    \A c \in JobRead : \A key \in {"requirements", "requirement"} :
        LET given == CleanText(Get(calls[c].job_data, key))
        IN  /\ Contains(calls[c].job_desc, given)
            /\ \A skill \in Range(ExtractSkills(analyzer, given)) :
                   \E i \in DOMAIN calls[c].required_skills :
                       Contains(calls[c].required_skills[i], skill)

\* C9: analyze writes no field of the shared analyzer, and any two calls
\* with equal arguments, however their steps interleave, return equal
\* results, list orders included.
C9_PureAnalysis ==
    /\ [][analyzer' = analyzer]_vars
    /\ [](\A c, d \in Returned :
              (calls[c].resume_text = calls[d].resume_text
               /\ calls[c].job_data = calls[d].job_data)
                  => calls[c].result = calls[d].result)

\* Two returned calls with equal arguments whose result lists two links in
\* the order of the hash seed, not in the order of the text or the alphabet.
C9_Witness ==
    /\ Returned = CallIds
    /\ calls[1].resume_text = ResumeLongCareer
    /\ calls[2].resume_text = ResumeLongCareer
    /\ calls[1].job_data = calls[2].job_data
    /\ hashSeed = 1
    /\ Len(calls[1].result.cv_data.links) = 2
    /\ calls[1].result = calls[2].result
    /\ analyzer = NewAnalyzer(analyzer.nlp, SkillsCsvCells)

-----------------------------------------------------------------------------
(* The two score functions on every combination of sub-scores that the     *)
(* four sub-score functions can return.                                    *)

\* Denominator of the similarity values tried.
SimDen == 7

\* Largest number of required skills tried.
MaxRequired == 3

\* Largest number of years below zero tried for the experience total.
MaxDeficit == 2

\* The years a position can require (_calculate_experience_score).
RequiredYearsOptions == {2, 3, 5}

SimilarityValues == {Rat(k, SimDen) : k \in 0 .. SimDen}

SkillValues == {Rat(m, n) : m \in 0 .. MaxRequired, n \in 1 .. MaxRequired} \cap
               {r \in [num : 0 .. MaxRequired, den : 1 .. MaxRequired] : r.num <= r.den}

ExperienceValues ==
    UNION {{Rat(t, r) : t \in (0 - MaxDeficit) .. (r - 1)} : r \in RequiredYearsOptions}
    \cup {Rat(1, 1)}

EducationValues == {Rat(k, 3) : k \in 0 .. 3}

InitScore ==
    /\ analyzer = IdleAnalyzer
    /\ hashSeed = 0
    /\ calls = <<>>
    /\ cleanT = Idle
    /\ skillT = Idle
    /\ NoView
    /\ \E e \in ExperienceValues, d \in EducationValues,
          k \in SkillValues, s \in SimilarityValues :
           scoreT = [pc |-> "scored", similarity |-> s, skills |-> k, exp |-> e,
                     edu |-> d, compatibility_score |-> 0,
                     score_breakdown |-> FormatScoreBreakdown(Rat(0, 1), Rat(0, 1),
                                                              Rat(0, 1), Rat(0, 1))]

\* analyze: compatibility_score = self._calculate_compatibility_score(...)
Combine ==
    /\ scoreT.pc = "scored"
    /\ scoreT' = [scoreT EXCEPT
           !.pc = "combined",
           !.compatibility_score =
               CalculateCompatibilityScore(scoreT.similarity, scoreT.skills,
                                           scoreT.exp, scoreT.edu)]
    /\ UNCHANGED <<analyzer, hashSeed, calls, cleanT, skillT, viewVars>>

\* analyze: 'score_breakdown': self._format_score_breakdown(...)
Format ==
    /\ scoreT.pc = "combined"
    /\ scoreT' = [scoreT EXCEPT
           !.pc = "formatted",
           !.score_breakdown =
               FormatScoreBreakdown(scoreT.similarity, scoreT.skills,
                                    scoreT.exp, scoreT.edu)]
    /\ UNCHANGED <<analyzer, hashSeed, calls, cleanT, skillT, viewVars>>

NextScore == Combine \/ Format

SpecScore == InitScore /\ [][NextScore]_vars

AllInUnitInterval ==
    /\ InUnitInterval(scoreT.similarity)
    /\ InUnitInterval(scoreT.skills)
    /\ InUnitInterval(scoreT.exp)
    /\ InUnitInterval(scoreT.edu)

\* C1: the four weights sum to 1.0, and for sub-scores in [0,1] the
\* compatibility score is 100 * (0.4 s + 0.4 k + 0.15 e + 0.05 d) rounded to
\* two decimals (the nearest hundredth) and lies in [0, 100].
C1_CompatibilityInRange ==
    /\ SimilarityWeight + SkillsWeight + ExperienceWeight + EducationWeight = 100
    /\ (scoreT.pc \in {"combined", "formatted"} /\ AllInUnitInterval) =>
        LET s == scoreT.similarity
            k == scoreT.skills
            e == scoreT.exp
            d == scoreT.edu
            den == s.den * k.den * e.den * d.den
            exact == 4000 * s.num * k.den * e.den * d.den
                     + 4000 * k.num * s.den * e.den * d.den
                     + 1500 * e.num * s.den * k.den * d.den
                     + 500 * d.num * s.den * k.den * e.den
        IN  /\ 0 <= scoreT.compatibility_score
            /\ scoreT.compatibility_score <= 10000
            /\ 2 * Abs(scoreT.compatibility_score * den - exact) <= den

\* All four sub-scores are 1 and the score is 100.00.
C1_Witness ==
    /\ scoreT.pc = "combined"
    /\ scoreT.similarity = Rat(SimDen, SimDen)
    /\ scoreT.skills = Rat(1, 1)
    /\ scoreT.exp = Rat(1, 1)
    /\ scoreT.edu = Rat(3, 3)
    /\ scoreT.compatibility_score = 10000

\* The breakdown's percentages taken back to sub-scores and weighted again.
Recombined ==
    CalculateCompatibilityScore(Rat(scoreT.score_breakdown.semantic_similarity, 10000),
                                Rat(scoreT.score_breakdown.skill_coverage, 10000),
                                Rat(scoreT.score_breakdown.experience_match, 10000),
                                Rat(scoreT.score_breakdown.education_match, 10000))

\* C8 as stated: weighting the sub-scores read back from score_breakdown
\* gives exactly compatibility_score.
C8_RoundTripExact ==
    scoreT.pc = "formatted" => Recombined = scoreT.compatibility_score

\* C8 as amended: weighting the sub-scores read back from score_breakdown
\* gives compatibility_score to within 0.01 (one unit of the second decimal).
C8_RoundTripWithinOneHundredth ==
    scoreT.pc = "formatted" => Abs(Recombined - scoreT.compatibility_score) <= 1

\* A result whose recombined score is one hundredth off its compatibility_score.
C8_Witness ==
    /\ scoreT.pc = "formatted"
    /\ Abs(Recombined - scoreT.compatibility_score) = 1

-----------------------------------------------------------------------------
(* The skill operations on their own: _extract_skills on a text,            *)
(* _calculate_skill_score and _find_missing_skills on two skill lists,       *)
(* which are given or extracted as analyze extracts them.                    *)

\* Longest skill list given.
MaxGiven == 2

SkillNames ==
    {<<"P", "y", "t", "h", "o", "n">>, <<"p", "y", "t", "h", "o", "n">>,
     <<"s", "q", "l">>, <<"R", "u", "s", "t">>}

\* 'Skills:\nPython, Django; SQL\n\nHobbies'
SkillsSectionText ==
    <<"S", "k", "i", "l", "l", "s", ":", "\n", "P", "y", "t", "h", "o",
      "n", ",", " ", "D", "j", "a", "n", "g", "o", ";", " ", "S", "Q", "L",
      "\n", "\n", "H", "o", "b", "b", "i", "e", "s">>

\* 'SKILLS\nMonthly Reports, GitHub\nEDUCATION: none'
SkillsMonthlyText ==
    <<"S", "K", "I", "L", "L", "S", "\n", "M", "o", "n", "t", "h", "l",
      "y", " ", "R", "e", "p", "o", "r", "t", "s", ",", " ", "G", "i", "t",
      "H", "u", "b", "\n", "E", "D", "U", "C", "A", "T", "I", "O", "N",
      ":", " ", "n", "o", "n", "e">>

\* 'Python and Python and machine learning'
RepeatedPhrasesText ==
    <<"P", "y", "t", "h", "o", "n", " ", "a", "n", "d", " ", "P", "y", "t",
      "h", "o", "n", " ", "a", "n", "d", " ", "m", "a", "c", "h", "i", "n",
      "e", " ", "l", "e", "a", "r", "n", "i", "n", "g">>

\* Resumes with a skills section, as analyze is called with them.
SectionArguments ==
    {<<SkillsSectionText, JobTitleOnly>>, <<SkillsMonthlyText, JobSeniorPython>>}

SkillTexts ==
    {SkillsSectionText, SkillsMonthlyText, RepeatedPhrasesText, ResumeJohnDoe,
     ResumeEmpty}

InitSkills ==
    /\ \E nlp \in LanguageModels : \E cells \in {{}, SkillsCsvCells} :
           analyzer = NewAnalyzer(nlp, cells)
    /\ hashSeed = 0
    /\ calls = <<>>
    /\ cleanT = Idle
    /\ scoreT = Idle
    /\ skillT = Idle
    /\ NoView

\* self._extract_skills(text)
ExtractSkillsOf(text) ==
    /\ skillT.pc = "idle"
    /\ skillT' = [pc |-> "extracted", text |-> text,
                  skills |-> ExtractSkills(analyzer, text)]
    /\ UNCHANGED <<analyzer, hashSeed, calls, cleanT, scoreT, viewVars>>

\* Two skill lists handed over by a caller.
GivenLists ==
    /\ skillT.pc = "idle"
    /\ \E cv_skills, required_skills \in SeqsUpTo(SkillNames, MaxGiven) :
           skillT' = [pc |-> "lists", source |-> "given", job_data |-> <<>>,
                      cv_skills |-> cv_skills, required_skills |-> required_skills]
    /\ UNCHANGED <<analyzer, hashSeed, calls, cleanT, scoreT, viewVars>>

\* cv_data['skills'] and required_skills as analyze extracts them.
ExtractedLists(resume_text, job_data) ==
    /\ skillT.pc = "idle"
    /\ skillT' = [pc |-> "lists", source |-> "extracted", job_data |-> job_data,
                  resume_text |-> resume_text,
                  section_text |-> ExtractSection(CleanText(resume_text),
                                                  SkillSectionNames),
                  cv_skills |-> ExtractSkills(analyzer, CleanText(resume_text)),
                  required_skills |-> ExtractSkills(analyzer, JobDescription(job_data))]
    /\ UNCHANGED <<analyzer, hashSeed, calls, cleanT, scoreT, viewVars>>

\* self._calculate_skill_score(cv_skills, required_skills)
SkillScoreOf ==
    /\ skillT.pc = "lists"
    /\ skillT' = [skillT EXCEPT !.pc = "skill_score"] @@
                 [skill_score |-> CalculateSkillScore(skillT.cv_skills,
                                                      skillT.required_skills)]
    /\ UNCHANGED <<analyzer, hashSeed, calls, cleanT, scoreT, viewVars>>

\* self._find_missing_skills(cv_skills, required_skills)
MissingSkillsOf ==
    /\ skillT.pc = "lists"
    /\ skillT' = [skillT EXCEPT !.pc = "missing_skills"] @@
                 [missing_skills |-> FindMissingSkills(skillT.cv_skills,
                                                       skillT.required_skills)]
    /\ UNCHANGED <<analyzer, hashSeed, calls, cleanT, scoreT, viewVars>>

NextSkills ==
    \/ \E text \in SkillTexts : ExtractSkillsOf(text)
    \/ GivenLists
    \/ \E a \in AnalyzeArguments \cup SectionArguments : ExtractedLists(a[1], a[2])
    \/ SkillScoreOf
    \/ MissingSkillsOf

SpecSkills == InitSkills /\ [][NextSkills]_vars

\* C4: _calculate_skill_score returns the fraction of the required skills
\* whose lower-cased form is in the candidate list, and 1.0 whenever the
\* required list is empty, as it is for job data with neither description
\* nor requirements text.
C4_SkillScoreIsCoverage ==
    skillT.pc = "skill_score" =>
        LET required == skillT.required_skills
            covered  == {i \in DOMAIN required :
                            \E j \in DOMAIN skillT.cv_skills :
                                skillT.cv_skills[j] = Lower(required[i])}
        IN  /\ required = <<>> => skillT.skill_score = Rat(1, 1)
            /\ required # <<>> =>
                   skillT.skill_score = Rat(Cardinality(covered), Len(required))
            /\ (/\ skillT.source = "extracted"
                /\ Get(skillT.job_data, "description") = <<>>
                /\ Get(skillT.job_data, "requirements") = <<>>)
                   => skillT.skill_score = Rat(1, 1)

\* A job with a title only gives the score 1.0, and a given list with one of
\* two required skills covered through its lower-cased form gives 1/2.
C4_Witness ==
    /\ skillT.pc = "skill_score"
    /\ \/ /\ skillT.source = "extracted"
          /\ skillT.job_data = JobTitleOnly
          /\ skillT.cv_skills # <<>>
          /\ skillT.skill_score = Rat(1, 1)
       \/ /\ skillT.source = "given"
          /\ skillT.cv_skills = <<<<"p", "y", "t", "h", "o", "n">>>>
          /\ skillT.required_skills = <<<<"P", "y", "t", "h", "o", "n">>, <<"R", "u", "s", "t">>>>
          /\ skillT.skill_score = Rat(1, 2)

\* C5: missing_skills is exactly the lower-cased required skills longer than
\* three characters that are not in the candidate list, in ascending lexical
\* order without repeats; empty when nothing is required, and with an empty
\* candidate list all required skills of at least four characters.
C5_MissingSkillsExact ==
    skillT.pc = "missing_skills" =>
        LET required == Range(skillT.required_skills)
            cv       == Range(skillT.cv_skills)
            missing  == skillT.missing_skills
        IN  /\ Range(missing) = {Lower(r) : r \in {q \in required :
                                       Len(q) > 3 /\ Lower(q) \notin cv}}
            /\ \A i \in 1 .. (Len(missing) - 1) : StrLess(missing[i], missing[i + 1])
            /\ required = {} => missing = <<>>
            /\ cv = {} => Range(missing) = {Lower(r) : r \in {q \in required : Len(q) >= 4}}

\* Two missing skills in order, the three-letter one and the covered one left out.
C5_Witness ==
    /\ skillT.pc = "missing_skills"
    /\ skillT.source = "given"
    /\ skillT.cv_skills = <<>>
    /\ skillT.required_skills = <<<<"s", "q", "l">>, <<"R", "u", "s", "t">>>>
    /\ skillT.missing_skills = <<<<"r", "u", "s", "t">>>>

\* C6: every list _extract_skills returns, from the skills section or from
\* the noun-phrase fallback, is lower-cased, free of repeats, has no entry
\* with a blacklisted term, none without a letter, none with an email, URL,
\* digit, year or month marker, and is sorted by descending length, then
\* lexically.
C6_ExtractedSkillsAreClean ==
    skillT.pc = "extracted" =>
        LET skills == skillT.skills
        IN  \A i \in DOMAIN skills :
                /\ skills[i] = Lower(skills[i])
                /\ \A j \in DOMAIN skills : skills[j] = skills[i] => j = i
                /\ \A b \in SkillBlacklist : ~Contains(skills[i], b)
                /\ \E k \in DOMAIN skills[i] : IsLower(skills[i][k]) \/ IsUpper(skills[i][k])
                /\ \A k \in DOMAIN skills[i] : skills[i][k] # "@" /\ ~IsDigit(skills[i][k])
                /\ \A m \in {<<".", "c", "o", "m">>, <<"h", "t", "t", "p">>,
                              <<"y", "e", "a", "r">>, <<"m", "o", "n", "t", "h">>} :
                       ~Contains(skills[i], m)
                /\ i < Len(skills) => LongerThenLexical(skills[i], skills[i + 1])

\* C11: within analyze the section locator runs on the cleaned resume text
\* and, for a resume with a skills heading on its own line followed by a
\* non-blank line, returns the space-joined following lines up to the next
\* blank line or ALL-CAPS heading, so that the resume's skills are those of
\* the section path and not the noun phrases of the fallback.
C11_SectionLocatedInAnalyze ==
    (skillT.pc \in {"lists", "skill_score", "missing_skills"}
     /\ skillT.source = "extracted") =>
        LET section == ExtractSection(skillT.resume_text, SkillSectionNames)
            listed  == SectionSkills(analyzer.known_skills, section)
        IN  section # <<>> =>
                /\ skillT.section_text = section
                /\ listed # <<>> =>
                       skillT.cv_skills =
                           FallbackOrClean(analyzer, CleanText(skillT.resume_text), listed)

-----------------------------------------------------------------------------
(* ResumeAnalysisView (src/ats/views.py): POST requests served side by      *)
(* side, the ResumeAnalysis table (src/ats/models.py), the temporary files  *)
(* and the media storage.                                                   *)

\* analyze as one function of its arguments: the result dictionary from the
\* cv_data, the required skills and the four sub-scores.
AnalysisResult(cv_data, required_skills, similarity_score, skill_score, experience_score, education_score) ==
    [compatibility_score |-> CalculateCompatibilityScore(similarity_score, skill_score,
                                                         experience_score, education_score),
     missing_skills      |-> FindMissingSkills(cv_data.skills, required_skills),
     experience_match    |-> AtLeastFourFifths(experience_score),
     education_match     |-> AtLeastFourFifths(education_score),
     cv_data             |-> cv_data.personal_info,
     score_breakdown     |-> FormatScoreBreakdown(similarity_score, skill_score,
                                                  experience_score, education_score)]

\* analyze from the cleaned text, cv_data, job_desc and required_skills on.
AnalyzeScores(self, text, job_data, job_desc, cv_data, required_skills) ==
    AnalysisResult(cv_data, required_skills,
                   CalculateSemanticSimilarity(self.nlp, text, job_desc),
                   CalculateSkillScore(cv_data.skills, required_skills),
                   CalculateExperienceScore(text, Get(job_data, "position"),
                                            self.current_year),
                   CalculateEducationScore(text, job_desc))

\* analyze from the cleaned text on.
AnalyzeCleaned(self, text, job_data, seed) ==
    AnalyzeScores(self, text, job_data, JobDescription(job_data),
                  [personal_info |-> ExtractPersonalInfo(self.nlp, text, seed),
                   skills        |-> ExtractSkills(self, text),
                   experience    |-> FormatExperience(
                                         ExtractExperience(text, self.current_year)),
                   education     |-> ExtractEducation(text),
                   links         |-> ExtractLinks(text, seed)],
                  ExtractSkills(self, JobDescription(job_data)))

\* analyzer.analyze(raw_text, job_data)
Analyze(self, resume_text, job_data, seed) ==
    AnalyzeCleaned(self, CleanText(resume_text), job_data, seed)

\* 5 * 1024 * 1024 bytes
MaxUploadSize == 5242880

\* The page texts of the PDF files that are uploaded.
UploadContents == <<ResumeJohnDoe, ResumeEmpty>>

\* hashlib.md5(file_content).hexdigest(): a digest that tells the uploaded
\* contents apart (their position in UploadContents stands for it).
Md5(file_content) == CHOOSE i \in DOMAIN UploadContents : UploadContents[i] = file_content

\* A request without a resume part.
NoFile == [name |-> <<>>, size |-> 0, content |-> <<>>]

\* A file of the given name with the first resume as its content.
Upload(name, size) == [name |-> name, size |-> size, content |-> ResumeJohnDoe]

CvPdf == Upload(<<"c", "v", ".", "p", "d", "f">>, 1024)

\* The job data that the job API returns for a job id.
JobsById == <<JobFromApi, JobSeniorPython>>

\* The steps at which the environment can make a request fail: the job API,
\* the language model or the skills CSV, the PDF, the analysis (with a
\* ValueError or with another exception) and the database.
Faults == {"none", "job", "load", "extract", "analysis_value", "analysis", "create"}

\* The requests that are posted.
PostRequests ==
    {[upload |-> CvPdf, job_id |-> 1, fault |-> f] : f \in Faults}
    \cup {[upload |-> CvPdf, job_id |-> 2, fault |-> "none"],
          [upload |-> [name |-> <<"C", "V", ".", "P", "D", "F">>, size |-> MaxUploadSize,
                       content |-> ResumeEmpty],
           job_id |-> 1, fault |-> "none"],
          [upload |-> Upload(<<"c", "v", ".", "t", "x", "t">>, 1024),
           job_id |-> 1, fault |-> "none"],
          [upload |-> Upload(<<"b", "i", "g", ".", "p", "d", "f">>, MaxUploadSize + 1),
           job_id |-> 1, fault |-> "none"],
          [upload |-> NoFile, job_id |-> 1, fault |-> "none"]}

\* The requests served side by side.
RequestIds == {1, 2}

\* str.endswith
EndsWith(t, suffix) == MatchAt(t, Len(t) - Len(suffix) + 1, suffix)

\* The except clauses of post: the status for an exception class.
StatusOf(exception) ==
    IF exception = "ValueError" THEN 400
    ELSE IF exception = "RuntimeError" THEN 502
    ELSE 500

\* Response({"error": ...}, status=...)
ErrorResponse(status) == [status |-> status, analysis_id |-> 0, result |-> <<>>]

\* Response({'analysis_id': ..., 'job_data': ..., 'result': ...}, status=...)
RecordResponse(status, record) ==
    [status |-> status, analysis_id |-> record.id, result |-> record.analysis_result]

\* ResumeAnalysis.objects.filter(file_hash=..., job_data=...).first(): the id
\* of the newest matching row, 0 for None.
Existing(file_hash, job_data) ==
    LET ids == {i \in DOMAIN records : /\ records[i].file_hash = file_hash
                                       /\ records[i].job_data = job_data}
    IN  IF ids = {} THEN 0 ELSE Max(ids)

\* FileSystemStorage.save: the name asked for, or one told apart from the
\* files of that name that are there already.
AvailableName(file_hash) ==
    [hash |-> file_hash,
     copy |-> Cardinality({name \in storage : name.hash = file_hash})]

\* The frame of post once the serializer has validated the request (no file
\* is saved under the hash 0).
NewFrame(req) ==
    [pc |-> "validated", upload |-> req.upload, job_id |-> req.job_id,
     fault |-> req.fault, job_data |-> <<>>, file_hash |-> 0, tmp_path |-> 0,
     analysis |-> <<>>, personal_info |-> <<>>, filename |-> AvailableName(0),
     record |-> 0,
     raised |-> "", response |-> ErrorResponse(0)]

\* The frame when an exception reaches the except clauses of post.
Caught(frame, exception) ==
    [frame EXCEPT !.pc = "responded", !.raised = exception,
                  !.response = ErrorResponse(StatusOf(exception))]

\* The frame when an exception leaves _process_resume: the finally clause
\* comes first.
Raised(frame, exception) == [frame EXCEPT !.pc = "finally", !.raised = exception]

InitView ==
    /\ \E nlp \in LanguageModels : analyzer = NewAnalyzer(nlp, SkillsCsvCells)
    /\ hashSeed = 0
    /\ calls = <<>>
    /\ cleanT = Idle
    /\ scoreT = Idle
    /\ skillT = Idle
    /\ requests = [r \in RequestIds |-> Idle]
    /\ records = <<>>
    /\ tmpFiles = {}
    /\ storage = {}

\* post: the serializer and _validate_file.
Post(r) ==
    /\ requests[r].pc = "idle"
    /\ \E req \in PostRequests :
           requests' = [requests EXCEPT ![r] =
               IF req.upload = NoFile
               THEN [NewFrame(req) EXCEPT !.pc = "responded", !.response = ErrorResponse(400)]
               ELSE IF ~EndsWith(Lower(req.upload.name), <<".", "p", "d", "f">>)
                       \/ req.upload.size > MaxUploadSize
               THEN Caught(NewFrame(req), "ValueError")
               ELSE NewFrame(req)]
    /\ UNCHANGED <<analyzer, hashSeed, calls, cleanT, scoreT, skillT, records, tmpFiles,
                   storage>>

\* post: _get_job_data, then the hash of the file content.
GetJobData(r) ==
    /\ requests[r].pc = "validated"
    /\ requests' = [requests EXCEPT ![r] =
           IF requests[r].fault = "job"
           THEN Caught(requests[r], "RuntimeError")
           ELSE [requests[r] EXCEPT !.pc = "hashed",
                                    !.job_data = JobsById[requests[r].job_id],
                                    !.file_hash = Md5(requests[r].upload.content)]]
    /\ UNCHANGED <<analyzer, hashSeed, calls, cleanT, scoreT, skillT, records, tmpFiles,
                   storage>>

\* post: the check for an existing analysis.
CheckExisting(r) ==
    /\ requests[r].pc = "hashed"
    /\ requests' = [requests EXCEPT ![r] =
           IF Existing(requests[r].file_hash, requests[r].job_data) # 0
           THEN [requests[r] EXCEPT
                    !.pc = "responded",
                    !.response = RecordResponse(200,
                        records[Existing(requests[r].file_hash, requests[r].job_data)])]
           ELSE [requests[r] EXCEPT !.pc = "new"]]
    /\ UNCHANGED <<analyzer, hashSeed, calls, cleanT, scoreT, skillT, records, tmpFiles,
                   storage>>

\* post: the file content is written to a temporary file of its own name.
WriteTemp(r) ==
    /\ requests[r].pc = "new"
    /\ requests' = [requests EXCEPT ![r].pc = "written", ![r].tmp_path = r]
    /\ tmpFiles' = tmpFiles \cup {r}
    /\ UNCHANGED <<analyzer, hashSeed, calls, cleanT, scoreT, skillT, records, storage>>

\* _process_resume: a new analyzer, extract_text, analyze, personal_info.
AnalyzeResume(r) ==
    /\ requests[r].pc = "written"
    /\ requests' = [requests EXCEPT ![r] =
           IF requests[r].fault \in {"load", "extract"}
           THEN Raised(requests[r], "RuntimeError")
           ELSE IF requests[r].fault = "analysis_value"
           THEN Raised(requests[r], "ValueError")
           ELSE IF requests[r].fault = "analysis"
           THEN Raised(requests[r], "Exception")
           ELSE [requests[r] EXCEPT
                    !.pc = "analyzed",
                    !.analysis = Analyze(analyzer, CleanText(requests[r].upload.content),
                                         requests[r].job_data, hashSeed)]]
    /\ UNCHANGED <<analyzer, hashSeed, calls, cleanT, scoreT, skillT, records, tmpFiles,
                   storage>>

\* analysis.get('cv_data', {}).get('personal_info', {})
PersonalInfoOf(analysis) ==
    IF "cv_data" \in DOMAIN analysis /\ "personal_info" \in DOMAIN analysis.cv_data
    THEN analysis.cv_data.personal_info
    ELSE <<>>

\* _process_resume: personal_info, then the second check for an existing
\* analysis.
CheckExistingAgain(r) ==
    /\ requests[r].pc = "analyzed"
    /\ requests' = [requests EXCEPT ![r] =
           IF Existing(requests[r].file_hash, requests[r].job_data) # 0
           THEN [requests[r] EXCEPT
                    !.pc = "finally",
                    !.personal_info = PersonalInfoOf(requests[r].analysis),
                    !.record = Existing(requests[r].file_hash, requests[r].job_data)]
           ELSE [requests[r] EXCEPT
                    !.pc = "unsaved",
                    !.personal_info = PersonalInfoOf(requests[r].analysis)]]
    /\ UNCHANGED <<analyzer, hashSeed, calls, cleanT, scoreT, skillT, records, tmpFiles,
                   storage>>

\* _process_resume: fs.save(f"resumes/{file_hash}.pdf", ...)
SaveFile(r) ==
    /\ requests[r].pc = "unsaved"
    /\ requests' = [requests EXCEPT ![r].pc = "saved",
                                    ![r].filename = AvailableName(requests[r].file_hash)]
    /\ storage' = storage \cup {AvailableName(requests[r].file_hash)}
    /\ UNCHANGED <<analyzer, hashSeed, calls, cleanT, scoreT, skillT, records, tmpFiles>>

\* The row that ResumeAnalysis.objects.create(...) inserts.
NewRecord(frame, id) ==
    [id              |-> id,
     resume          |-> frame.filename,
     job_data        |-> frame.job_data,
     analysis_result |-> frame.analysis,
     file_hash       |-> frame.file_hash,
     applicant_name  |-> Get(frame.personal_info, "name"),
     applicant_email |-> Get(frame.personal_info, "email")]

\* _process_resume: ResumeAnalysis.objects.create(...), which the database
\* refuses when it fails or when unique_together would be broken.
Create(r) ==
    /\ requests[r].pc = "saved"
    /\ IF requests[r].fault = "create"
       THEN /\ requests' = [requests EXCEPT ![r] = Raised(requests[r], "Exception")]
            /\ UNCHANGED records
       ELSE IF Existing(requests[r].file_hash, requests[r].job_data) # 0
       THEN /\ requests' = [requests EXCEPT ![r] = Raised(requests[r], "IntegrityError")]
            /\ UNCHANGED records
       ELSE /\ records' = Append(records, NewRecord(requests[r], Len(records) + 1))
            /\ requests' = [requests EXCEPT ![r].pc = "finally",
                                            ![r].record = Len(records) + 1]
    /\ UNCHANGED <<analyzer, hashSeed, calls, cleanT, scoreT, skillT, tmpFiles, storage>>

\* post: finally os.remove(tmp_path), then the response: 201 with the
\* record, or the status of the exception.
Finally(r) ==
    /\ requests[r].pc = "finally"
    /\ tmpFiles' = tmpFiles \ {requests[r].tmp_path}
    /\ requests' = [requests EXCEPT ![r] =
           IF requests[r].raised # ""
           THEN Caught(requests[r], requests[r].raised)
           ELSE [requests[r] EXCEPT
                    !.pc = "responded",
                    !.response = RecordResponse(201, records[requests[r].record])]]
    /\ UNCHANGED <<analyzer, hashSeed, calls, cleanT, scoreT, skillT, records, storage>>

NextView ==
    \E r \in RequestIds :
        \/ Post(r)
        \/ GetJobData(r)
        \/ CheckExisting(r)
        \/ WriteTemp(r)
        \/ AnalyzeResume(r)
        \/ CheckExistingAgain(r)
        \/ SaveFile(r)
        \/ Create(r)
        \/ Finally(r)

SpecView == InitView /\ [][NextView]_vars

\* The requests that have been answered.
Responded == {r \in RequestIds : requests[r].pc = "responded"}

\* C12: after any interleaving of POST requests there is at most one record
\* per (file_hash, job_data) pair, and every request for a pair that has a
\* record is answered with that record's stored analysis result and not
\* with an error, also when two requests for the same new pair run side by
\* side (a request that the job API, the model, the PDF, the analysis or the
\* database made fail is left aside).
C12_OneRecordAndStoredResult ==
    /\ \A i, j \in DOMAIN records :
           (/\ records[i].file_hash = records[j].file_hash
            /\ records[i].job_data = records[j].job_data) => i = j
    /\ \A r \in Responded :
           (/\ requests[r].file_hash # 0
            /\ requests[r].raised \in {"", "IntegrityError"}
            /\ Existing(requests[r].file_hash, requests[r].job_data) # 0)
               => /\ requests[r].response.status \in {200, 201}
                  /\ requests[r].response.result =
                         records[Existing(requests[r].file_hash,
                                          requests[r].job_data)].analysis_result

\* C13: a request that fails at any step is answered with 400, 502 or 500
\* and leaves nothing behind: no record of its own, no temporary file and no
\* resume file in the storage; a request that succeeds has removed its
\* temporary file as well when it is answered.
C13_FailureLeavesNothing ==
    \A r \in Responded :
        /\ requests[r].tmp_path \notin tmpFiles
        /\ (requests[r].raised # "" \/ requests[r].upload = NoFile)
               => requests[r].response.status \in {400, 502, 500}
        /\ requests[r].response.status \in {400, 502, 500}
               => /\ requests[r].filename \notin storage
                  /\ \A i \in DOMAIN records : records[i].resume # requests[r].filename

\* C14: every record that _process_resume creates stores as applicant_name
\* and applicant_email the name and the email that analyze extracted, which
\* are in the cv_data of the stored result.
C14_ApplicantFromAnalysis ==
    \A i \in DOMAIN records :
        /\ records[i].applicant_name = records[i].analysis_result.cv_data.name
        /\ records[i].applicant_email = records[i].analysis_result.cv_data.email

====
